---- MODULE Spec2Model ----
(***************************************************************************)
(* TJL Project Setup Tool (src/src/tjl-project.py).                        *)
(*                                                                         *)
(* One invocation of the tool: main() parses the command line, constructs  *)
(* a ProjectSetup (sanitising and validating its inputs), and              *)
(* setup_project() creates the directory tree, writes the template files   *)
(* and bootstraps a git repository, rolling the tree back when a step      *)
(* raises.                                                                 *)
(*                                                                         *)
(* Strings that the code inspects character by character (project and      *)
(* environment names) are sequences of one-character strings.  Paths and   *)
(* branch names are sequences of components, relative to project_path,     *)
(* so <<>> is the project root.                                            *)
(*                                                                         *)
(* The file as shipped does not compile: the text returned by              *)
(* _get_conftest_content (line 782) is delimited by the same triple quote  *)
(* that it contains at line 788.  The model follows the functions as they  *)
(* are written.                                                            *)
(***************************************************************************)
EXTENDS Integers, Sequences, FiniteSets, TLC

VARIABLES input, self, pc, i, dirs, files, todo, repo, gitLog, exc, orig, exit,
          other

vars ==
  <<input, self, pc, i, dirs, files, todo, repo, gitLog, exc, orig, exit, other>>

(***************************************************************************)
(* Bounds of the model.                                                    *)
(***************************************************************************)
MaxNameLen == 3
MaxEnvs == 2

(***************************************************************************)
(* Characters.                                                             *)
(***************************************************************************)
LowerLetters ==
  <<"a","b","c","d","e","f","g","h","i","j","k","l","m",
    "n","o","p","q","r","s","t","u","v","w","x","y","z">>

UpperLetters ==
  <<"A","B","C","D","E","F","G","H","I","J","K","L","M",
    "N","O","P","Q","R","S","T","U","V","W","X","Y","Z">>

Digits == {"0","1","2","3","4","5","6","7","8","9"}

Range(s) == {s[k] : k \in 1..Len(s)}

IsLower(c) == c \in Range(LowerLetters)
IsUpper(c) == c \in Range(UpperLetters)
IsDigit(c) == c \in Digits

\* "e_acute" stands for one non-ASCII letter: a word character for \w that
\* str.lower() leaves outside a-z.
NonAsciiLetters == {"e_acute"}

\* \w of a str pattern: letters and digits of any script, and the underscore.
IsWord(c) == IsLower(c) \/ IsUpper(c) \/ IsDigit(c) \/ c = "_" \/ c \in NonAsciiLetters

\* \s, and the characters str.strip() removes.
IsSpace(c) == c \in {" ", "\t", "\n"}

\* str.lower() on one character.
LowerChar(c) ==
  IF IsUpper(c)
  THEN LowerLetters[CHOOSE k \in 1..Len(UpperLetters) : UpperLetters[k] = c]
  ELSE c

\* re.sub(r'[^\w\s-]', '', name)
RECURSIVE RemoveSpecial(_)
RemoveSpecial(s) ==
  IF s = <<>> THEN <<>>
  ELSE IF IsWord(Head(s)) \/ IsSpace(Head(s)) \/ Head(s) = "-"
       THEN <<Head(s)>> \o RemoveSpecial(Tail(s))
       ELSE RemoveSpecial(Tail(s))

RECURSIVE LStrip(_)
LStrip(s) ==
  IF s # <<>> /\ IsSpace(Head(s)) THEN LStrip(Tail(s)) ELSE s

RECURSIVE RStrip(_)
RStrip(s) ==
  IF s # <<>> /\ IsSpace(s[Len(s)]) THEN RStrip(SubSeq(s, 1, Len(s) - 1)) ELSE s

\* str.strip()
Strip(s) == RStrip(LStrip(s))

\* re.sub(r'[-\s]+', '-', name): every maximal run of hyphens and whitespace
\* becomes one hyphen.
RECURSIVE CollapseRuns(_)
CollapseRuns(s) ==
  IF s = <<>> THEN <<>>
  ELSE IF Head(s) = "-" \/ IsSpace(Head(s))
       THEN LET rest == CollapseRuns(Tail(s))
            IN IF rest # <<>> /\ Head(rest) = "-" /\ Len(s) > 1
                  /\ (s[2] = "-" \/ IsSpace(s[2]))
               THEN rest
               ELSE <<"-">> \o rest
       ELSE <<Head(s)>> \o CollapseRuns(Tail(s))

Lower(s) == [k \in 1..Len(s) |-> LowerChar(s[k])]

\* ProjectSetup._sanitize_project_name
_sanitize_project_name(name) == Lower(CollapseRuns(Strip(RemoveSpecial(name))))

\* re.match(r'^[a-z][a-z0-9-_]*$', s): $ also matches before one trailing
\* newline.
IdentChar(c) == IsLower(c) \/ IsDigit(c) \/ c = "-" \/ c = "_"

IdentBody(s) == s # <<>> /\ IsLower(s[1]) /\ \A k \in 2..Len(s) : IdentChar(s[k])

MatchesIdentifier(s) ==
  \/ IdentBody(s)
  \/ Len(s) > 1 /\ s[Len(s)] = "\n" /\ IdentBody(SubSeq(s, 1, Len(s) - 1))

(***************************************************************************)
(* Template catalog.                                                       *)
(***************************************************************************)
TemplateKinds == {"basic", "microservice", "webapp", "library"}

\* template_map of _get_template_instance.
template_map ==
  [basic |-> "BaseTemplate", microservice |-> "MicroserviceTemplate",
   webapp |-> "WebAppTemplate", library |-> "LibraryTemplate"]

\* The template kinds, as the characters that reach the commit message.
KindChars ==
  [basic |-> <<"b","a","s","i","c">>,
   microservice |-> <<"m","i","c","r","o","s","e","r","v","i","c","e">>,
   webapp |-> <<"w","e","b","a","p","p">>,
   library |-> <<"l","i","b","r","a","r","y">>,
   bogus |-> <<"b","o","g","u","s">>]

\* __class__.__name__ of the four classes.
ClassName ==
  [BaseTemplate |-> <<"B","a","s","e","T","e","m","p","l","a","t","e">>,
   MicroserviceTemplate |->
     <<"M","i","c","r","o","s","e","r","v","i","c","e","T","e","m","p","l","a","t","e">>,
   WebAppTemplate |-> <<"W","e","b","A","p","p","T","e","m","p","l","a","t","e">>,
   LibraryTemplate |-> <<"L","i","b","r","a","r","y","T","e","m","p","l","a","t","e">>]

\* str.replace(old, ''): every occurrence of old, left to right, is removed.
RECURSIVE Remove(_, _)
Remove(s, old) ==
  IF Len(s) < Len(old) THEN s
  ELSE IF SubSeq(s, 1, Len(old)) = old
       THEN Remove(SubSeq(s, Len(old) + 1, Len(s)), old)
       ELSE <<Head(s)>> \o Remove(Tail(s), old)

\* self.__class__.__name__.lower().replace('template', '')
template_type(class) ==
  Remove(Lower(ClassName[class]), <<"t","e","m","p","l","a","t","e">>)

\* The content generators each class defines or inherits.
BaseMethods ==
  {"_get_readme_content", "_get_gitignore_content", "_get_editorconfig_content",
   "_get_switch_env_content", "_get_deploy_script_content",
   "_get_test_script_content", "_get_workflow_content",
   "_get_docs_readme_content", "_get_core_init_content",
   "_get_utils_init_content", "_get_conftest_content"}

Methods(class) ==
  IF class = "MicroserviceTemplate"
  THEN BaseMethods \cup
         {"_get_dockerfile_content", "_get_docker_compose_content",
          "_get_k8s_deployment_content", "_get_health_route_content",
          "_get_base_service_content"}
  ELSE BaseMethods

\* BaseTemplate.get_directories
BaseDirectories(environments) ==
  << <<>>, <<"config">> >>
  \o [k \in 1..Len(environments) |-> <<"config", environments[k]>>]
  \o << <<"docs">>, <<"docs", "api">>, <<"docs", "setup">>, <<"scripts">>,
        <<"src">>, <<"src", "core">>, <<"src", "utils">>, <<"tests">>,
        <<"tests", "unit">>, <<"tests", "integration">>,
        <<".github", "workflows">> >>

MicroserviceDirectories ==
  << <<"src", "api">>, <<"src", "api", "routes">>, <<"src", "api", "middleware">>,
     <<"src", "api", "schemas">>, <<"src", "services">>, <<"src", "models">>,
     <<"deployment">>, <<"deployment", "kubernetes">>, <<"deployment", "docker">>,
     <<"deployment", "terraform">>, <<"deployment", "scripts">> >>

WebAppDirectories ==
  << <<"src", "components">>, <<"src", "components", "common">>,
     <<"src", "components", "layout">>, <<"src", "components", "features">>,
     <<"src", "pages">>, <<"src", "styles">>, <<"src", "hooks">>,
     <<"src", "context">>, <<"src", "utils">>, <<"public">>,
     <<"public", "images">>, <<"public", "fonts">> >>

LibraryDirectories ==
  << <<"src", "core">>, <<"src", "utils">>, <<"src", "exceptions">>,
     <<"src", "interfaces">>, <<"examples">>, <<"examples", "basic">>,
     <<"examples", "advanced">>, <<"benchmarks">>, <<"docs", "api">>,
     <<"docs", "guides">> >>

\* get_directories of the four classes: dirs = super().get_directories(),
\* return dirs + [...]
get_directories(class, environments) ==
  BaseDirectories(environments) \o
    (CASE class = "BaseTemplate" -> <<>>
       [] class = "MicroserviceTemplate" -> MicroserviceDirectories
       [] class = "WebAppTemplate" -> WebAppDirectories
       [] class = "LibraryTemplate" -> LibraryDirectories)

\* The dict literal of BaseTemplate.get_files, in source order: the path and
\* the generator that is called for its content.
BaseFiles ==
  << [path |-> <<"README.md">>, gen |-> "_get_readme_content"],
     [path |-> <<".gitignore">>, gen |-> "_get_gitignore_content"],
     [path |-> <<".editorconfig">>, gen |-> "_get_editorconfig_content"],
     [path |-> <<"scripts", "switch_env.sh">>, gen |-> "_get_switch_env_content"],
     [path |-> <<"scripts", "deploy.sh">>, gen |-> "_get_deploy_script_content"],
     [path |-> <<"scripts", "run_tests.sh">>, gen |-> "_get_test_script_content"],
     [path |-> <<".github", "workflows", "ci.yml">>, gen |-> "_get_workflow_content"],
     [path |-> <<"docs", "README.md">>, gen |-> "_get_docs_readme_content"],
     [path |-> <<"src", "core", "__init__.py">>, gen |-> "_get_core_init_content"],
     [path |-> <<"src", "utils", "__init__.py">>, gen |-> "_get_utils_init_content"],
     [path |-> <<"tests", "conftest.py">>, gen |-> "_get_conftest_content"] >>

MicroserviceFiles ==
  << [path |-> <<"Dockerfile">>, gen |-> "_get_dockerfile_content"],
     [path |-> <<"docker-compose.yml">>, gen |-> "_get_docker_compose_content"],
     [path |-> <<"deployment", "kubernetes", "deployment.yml">>,
      gen |-> "_get_k8s_deployment_content"],
     [path |-> <<"deployment", "kubernetes", "service.yml">>,
      gen |-> "_get_k8s_service_content"],
     [path |-> <<"deployment", "terraform", "main.tf">>, gen |-> "_get_terraform_content"],
     [path |-> <<"src", "api", "routes", "health.py">>, gen |-> "_get_health_route_content"],
     [path |-> <<"src", "api", "middleware", "logging.py">>,
      gen |-> "_get_logging_middleware_content"],
     [path |-> <<"src", "api", "schemas", "base.py">>, gen |-> "_get_base_schema_content"],
     [path |-> <<"src", "services", "base.py">>, gen |-> "_get_base_service_content"],
     [path |-> <<"src", "models", "base.py">>, gen |-> "_get_base_model_content"],
     [path |-> <<"requirements.txt">>, gen |-> "_get_requirements_content"] >>

WebAppFiles ==
  << [path |-> <<"package.json">>, gen |-> "_get_package_json_content"],
     [path |-> <<"next.config.js">>, gen |-> "_get_next_config_content"],
     [path |-> <<".eslintrc.js">>, gen |-> "_get_eslint_content"],
     [path |-> <<"tailwind.config.js">>, gen |-> "_get_tailwind_config_content"],
     [path |-> <<"src", "styles", "globals.css">>, gen |-> "_get_global_styles_content"],
     [path |-> <<"src", "pages", "_app.tsx">>, gen |-> "_get_app_content"],
     [path |-> <<"src", "components", "layout", "Layout.tsx">>,
      gen |-> "_get_layout_content"],
     [path |-> <<"src", "hooks", "useAuth.ts">>, gen |-> "_get_auth_hook_content"],
     [path |-> <<"src", "context", "AuthContext.tsx">>,
      gen |-> "_get_auth_context_content"] >>

LibraryFiles ==
  << [path |-> <<"setup.py">>, gen |-> "_get_setup_content"],
     [path |-> <<"pyproject.toml">>, gen |-> "_get_pyproject_content"],
     [path |-> <<"MANIFEST.in">>, gen |-> "_get_manifest_content"],
     [path |-> <<"docs", "conf.py">>, gen |-> "_get_sphinx_config_content"],
     [path |-> <<"src", "core", "base.py">>, gen |-> "_get_base_class_content"],
     [path |-> <<"src", "exceptions", "base.py">>, gen |-> "_get_exceptions_content"],
     [path |-> <<"benchmarks", "benchmark.py">>, gen |-> "_get_benchmark_content"] >>

ExtraFiles(class) ==
  CASE class = "BaseTemplate" -> <<>>
    [] class = "MicroserviceTemplate" -> MicroserviceFiles
    [] class = "WebAppTemplate" -> WebAppFiles
    [] class = "LibraryTemplate" -> LibraryFiles

\* dict.update: a key already present keeps its position and takes the new
\* value, a new key is appended.
RECURSIVE DictUpdate(_, _)
DictUpdate(d, u) ==
  IF u = <<>> THEN d
  ELSE LET e == Head(u)
           d2 == IF \E k \in 1..Len(d) : d[k].path = e.path
                 THEN [k \in 1..Len(d) |-> IF d[k].path = e.path THEN e ELSE d[k]]
                 ELSE Append(d, e)
       IN DictUpdate(d2, Tail(u))

Missing(class, entries) ==
  {k \in 1..Len(entries) : entries[k].gen \notin Methods(class)}

\* get_files of the four classes.  Evaluating a dict literal calls the
\* generators in order; a generator the class does not define raises
\* AttributeError and no dict is returned.
get_files(class) ==
  LET all == BaseFiles \o ExtraFiles(class)
      bad == Missing(class, all)
  IN IF bad # {}
     THEN [ok |-> FALSE, files |-> <<>>,
           error |-> all[CHOOSE k \in bad : \A m \in bad : k <= m].gen]
     ELSE [ok |-> TRUE, files |-> DictUpdate(BaseFiles, ExtraFiles(class)),
           error |-> "none"]

Paths(entries) == {entries[k].path : k \in 1..Len(entries)}

(***************************************************************************)
(* The git repository, as far as setup_git drives it.                      *)
(***************************************************************************)
Cmd(op, a, b) == [op |-> op, a |-> a, b |-> b]

NoArg == <<>>

\* git_configs of setup_git
git_configs ==
  << "core.autocrlf", "core.eol", "branch.main.mergeoptions", "pull.rebase",
     "init.defaultBranch" >>

RECURSIVE SelectSeq2(_, _)
SelectSeq2(s, keep) ==
  IF s = <<>> THEN <<>>
  ELSE IF Head(s) \in keep THEN <<Head(s)>> \o SelectSeq2(Tail(s), keep)
       ELSE SelectSeq2(Tail(s), keep)

\* [e for e in self.environments if e not in ['local', 'dev']]
EnvBranches(environments) ==
  SelectSeq2(environments, Range(environments) \ {"local", "dev"})

\* The end of each demonstrative block: the base branch is checked out
\* again, then the demonstrative branch is deleted.
LeaveAndDeleteAsDeleteFirst(name, base) ==
  << Cmd("branch-D", name, NoArg), Cmd("checkout", base, NoArg) >>

LeaveAndDelete(name, base) ==
  << Cmd("checkout", base, NoArg), Cmd("branch-D", name, NoArg) >>

\* The demonstrative branch blocks of setup_git (lines 959-975).
DemoBlockAsKept(name, base) ==
  << Cmd("checkout-b", name, base), Cmd("checkout", base, NoArg) >>

DemoBlock(name, base) ==
  << Cmd("checkout-b", name, base) >> \o LeaveAndDelete(name, base)

\* Lines 919-945: the repository, its configuration and the initial commit.
InitialCommit ==
  << Cmd("init", NoArg, NoArg) >>
  \o [k \in 1..Len(git_configs) |-> Cmd("config", <<git_configs[k]>>, NoArg)]
  \o << Cmd("add", NoArg, NoArg), Cmd("commit", NoArg, NoArg) >>

\* Lines 947-952: the current branch is renamed to main, develop is created
\* from it.
BaseBranchesAsNoRename ==
  << Cmd("checkout-b", <<"develop">>, <<"main">>) >>

BaseBranches ==
  << Cmd("branch-M", <<"main">>, NoArg),
     Cmd("checkout-b", <<"develop">>, <<"main">>) >>

\* Lines 977-989: protection block, hooks, back to main, the tag.
FinalStepsAsTagFirst ==
  << Cmd("tag-a", <<"v0.1.0">>, NoArg),
     Cmd("_setup_branch_protection", NoArg, NoArg),
     Cmd("_setup_git_hooks", NoArg, NoArg),
     Cmd("checkout", <<"main">>, NoArg) >>

FinalSteps ==
  << Cmd("_setup_branch_protection", NoArg, NoArg),
     Cmd("_setup_git_hooks", NoArg, NoArg),
     Cmd("checkout", <<"main">>, NoArg),
     Cmd("tag-a", <<"v0.1.0">>, NoArg) >>

\* The statements of setup_git in order: every _run_git_command call, and
\* the two helpers that write into .git.
SetupGitStepsAsTwoCommits(environments) ==
  InitialCommit
  \o BaseBranches
  \o << Cmd("add", NoArg, NoArg), Cmd("commit", NoArg, NoArg) >>
  \o [k \in 1..Len(EnvBranches(environments)) |->
        Cmd("checkout-b", <<EnvBranches(environments)[k]>>, <<"develop">>)]
  \o DemoBlock(<<"feature", "example">>, <<"develop">>)
  \o DemoBlock(<<"release", "0.1.0">>, <<"develop">>)
  \o DemoBlock(<<"hotfix", "example">>, <<"main">>)
  \o FinalSteps

SetupGitSteps(environments) ==
  InitialCommit
  \o BaseBranches
  \o [k \in 1..Len(EnvBranches(environments)) |->
        Cmd("checkout-b", <<EnvBranches(environments)[k]>>, <<"develop">>)]
  \o DemoBlock(<<"feature", "example">>, <<"develop">>)
  \o DemoBlock(<<"release", "0.1.0">>, <<"develop">>)
  \o DemoBlock(<<"hotfix", "example">>, <<"main">>)
  \o FinalSteps

\* Names of the model that end in a newline.  The command is one string run
\* with shell=True: the shell ends the git command at the newline and runs
\* the rest of the line as a second command, which does not exist.
NewlineNames == {"qa\n"}

ShellRuns(c) == \A k \in 1..Len(c.a) : c.a[k] \notin NewlineNames

IsGitCommand(c) == c.op \notin {"_setup_branch_protection", "_setup_git_hooks"}

EmptyFun == [x \in {} |-> 0]

\* No repository: the state before 'git init' and after the tree is removed.
NoRepo ==
  [init |-> FALSE, head |-> <<>>, branches |-> EmptyFun, commits |-> 0,
   tags |-> EmptyFun, config |-> {}, staged |-> FALSE, protection |-> FALSE,
   hooks |-> {}]

IsPrefix(p, q) == Len(p) < Len(q) /\ SubSeq(q, 1, Len(p)) = p

\* A ref cannot be created when a ref exists that is a directory prefix of
\* it, or of which it is a directory prefix.
RefConflict(name, r) ==
  \E b \in DOMAIN r.branches : IsPrefix(b, name) \/ IsPrefix(name, b)

\* Whether git accepts the command in repository state r.
GitAccepts(c, r) ==
  CASE c.op = "init" -> TRUE
    [] c.op = "config" -> r.init
    [] c.op = "add" -> r.init
    [] c.op = "commit" -> r.init /\ r.staged
    [] c.op = "branch-M" -> r.init /\ r.head \in DOMAIN r.branches
    [] c.op = "checkout-b" ->
         /\ r.init
         /\ c.b \in DOMAIN r.branches
         /\ c.a \notin DOMAIN r.branches
         /\ ~RefConflict(c.a, r)
    [] c.op = "checkout" -> r.init /\ c.a \in DOMAIN r.branches
    [] c.op = "branch-D" -> r.init /\ c.a \in DOMAIN r.branches /\ c.a # r.head
    [] c.op = "tag-a" ->
         r.init /\ r.head \in DOMAIN r.branches /\ c.a \notin DOMAIN r.tags
    [] OTHER -> r.init

Without(f, x) == [y \in DOMAIN f \ {x} |-> f[y]]

\* The repository after the command has succeeded.
GitApply(c, r, default_branch) ==
  CASE c.op = "init" ->
         \* 'git init' in an existing repository reinitialises it and keeps HEAD.
         [r EXCEPT !.init = TRUE, !.head = IF r.init THEN @ ELSE default_branch]
    [] c.op = "config" -> [r EXCEPT !.config = @ \cup {c.a}]
    [] c.op = "add" -> [r EXCEPT !.staged = TRUE]
    [] c.op = "commit" ->
         [r EXCEPT !.commits = @ + 1, !.staged = FALSE,
                   !.branches = (r.head :> (r.commits + 1)) @@ @]
    [] c.op = "branch-M" ->
         [r EXCEPT !.branches = (c.a :> r.branches[r.head]) @@ Without(@, r.head),
                   !.head = c.a]
    [] c.op = "checkout-b" ->
         [r EXCEPT !.branches = (c.a :> r.branches[c.b]) @@ @, !.head = c.a]
    [] c.op = "checkout" -> [r EXCEPT !.head = c.a]
    [] c.op = "branch-D" -> [r EXCEPT !.branches = Without(@, c.a)]
    [] c.op = "tag-a" -> [r EXCEPT !.tags = (c.a :> r.branches[r.head]) @@ @]
    [] c.op = "_setup_branch_protection" -> [r EXCEPT !.protection = TRUE]
    [] c.op = "_setup_git_hooks" ->
         [r EXCEPT !.hooks = {"pre-commit", "prepare-commit-msg"}]

(***************************************************************************)
(* Exceptions.  A message is the sequence of its fragments; wrapping an    *)
(* exception prepends the wrapper's text to str(e).                        *)
(***************************************************************************)
Exc(kind, msg, from) == [kind |-> kind, msg |-> msg, from |-> from]

NoExc == Exc("none", <<>>, "none")

Contains(msg, part) ==
  \E k \in 0..(Len(msg) - Len(part)) : SubSeq(msg, k + 1, k + Len(part)) = part

(***************************************************************************)
(* Inputs.                                                                 *)
(***************************************************************************)
\* The characters of the environment names of the model.  The lists drawn
\* for a run are over EnvNames: a name that stays a configuration only, one
\* that becomes a branch, two that collide with refs of the bootstrap, and
\* one that fails the pattern; dev and prod come with the default list.
EnvChars ==
  [local |-> <<"l","o","c","a","l">>,
   dev |-> <<"d","e","v">>,
   staging |-> <<"s","t","a","g","i","n","g">>,
   prod |-> <<"p","r","o","d">>,
   main |-> <<"m","a","i","n">>,
   feature |-> <<"f","e","a","t","u","r","e">>,
   Prod |-> <<"P","r","o","d">>,
   develop |-> <<"d","e","v","e","l","o","p">>,
   release |-> <<"r","e","l","e","a","s","e">>,
   hotfix |-> <<"h","o","t","f","i","x">>]
  @@ ("qa\n" :> <<"q","a","\n">>)

EnvNames == {"local", "staging", "main", "feature", "Prod"}

RECURSIVE SeqsUpTo(_, _)
SeqsUpTo(S, n) ==
  IF n = 0 THEN {<<>>}
  ELSE LET shorter == SeqsUpTo(S, n - 1)
       IN shorter \cup {Append(q, x) : q \in {t \in shorter : Len(t) = n - 1}, x \in S}

\* <<>> is environments=None (and an empty list): the default list is used.
EnvLists == SeqsUpTo(EnvNames, MaxEnvs)

\* environments or ['local', 'dev', 'staging', 'prod']
DefaultEnvironments == <<"local", "dev", "staging", "prod">>

\* Raw project names of the full runs.
SampleNames ==
  { <<"M","y"," ","A","p","p">>, <<"1","x">>, <<"!","!">> }

\* Raw project names for the sanitizer.
NameAlphabet == {"a", "B", "1", "-", "_", " ", "\n", "!", "e_acute"}

BoundedNames == SeqsUpTo(NameAlphabet, MaxNameLen)

\* What is on disk under project_path before the run, when it exists.
OldDirs == { <<>>, <<"old">> }

OldFiles == (<<"old", "data.txt">> :> [content |-> "old", mode |-> "0644"])

Request(argv, name, env, template, base, target, git, branch) ==
  [argv |-> argv, name |-> name, environments |-> env, template |-> template,
   base_exists |-> base, target_exists |-> target, git |-> git,
   default_branch |-> branch]

\* os.path.join(base_path, '') is base_path itself.
TargetChoices(name, base) ==
  IF ~base THEN {FALSE}
  ELSE IF _sanitize_project_name(name) = <<>> THEN {TRUE}
  ELSE {TRUE, FALSE}

Requests(names) ==
  { Request("none", <<"a">>, <<>>, "basic", TRUE, FALSE, "ok", <<"master">>),
    Request("version", <<"a">>, <<>>, "basic", TRUE, FALSE, "ok", <<"master">>),
    Request("help", <<"a">>, <<>>, "basic", TRUE, FALSE, "ok", <<"master">>) }
  \cup UNION { UNION { { Request(argv, name, env, template, base, target, git, branch) :
                           argv \in {"args", "api"}, env \in EnvLists,
                           template \in TemplateKinds \cup {"bogus"},
                           target \in TargetChoices(name, base),
                           git \in {"ok", "nonzero", "missing"},
                           branch \in { <<"master">>, <<"main">> } } :
                       base \in BOOLEAN } : name \in names }

(***************************************************************************)
(* ProjectSetup.__init__                                                   *)
(***************************************************************************)
NoObject ==
  [project_name |-> <<>>, environments |-> <<>>, template |-> "none",
   template_class |-> "none"]

InvalidEnvs(environments) ==
  {k \in 1..Len(environments) : ~MatchesIdentifier(EnvChars[environments[k]])}

\* The checks of _validate_inputs, each giving the exception it raises or
\* NoExc.
NameCheckAsNoPattern(name) ==
  IF name = <<>>
  THEN Exc("ValidationError", <<"Project name cannot be empty">>, "__init__")
  ELSE NoExc

NameCheck(name) ==
  IF name = <<>>
  THEN Exc("ValidationError", <<"Project name cannot be empty">>, "__init__")
  ELSE IF ~MatchesIdentifier(name)
  THEN Exc("ValidationError", <<"Project name must start with a letter">>, "__init__")
  ELSE NoExc

PathCheckAsNoTarget(req) ==
  IF ~req.base_exists
  THEN Exc("ValidationError", <<"Base path does not exist: ", "base_path">>, "__init__")
  ELSE NoExc

PathCheck(req) ==
  IF ~req.base_exists
  THEN Exc("ValidationError", <<"Base path does not exist: ", "base_path">>, "__init__")
  ELSE IF req.target_exists
  THEN Exc("ValidationError", <<"Project directory already exists: ", "project_path">>,
           "__init__")
  ELSE NoExc

EnvCheck(environments) ==
  LET bad == InvalidEnvs(environments)
  IN IF bad # {}
     THEN Exc("ValidationError",
              <<"Invalid environment name: ",
                environments[CHOOSE k \in bad : \A m \in bad : k <= m]>>,
              "__init__")
     ELSE NoExc

GitCheckAsIgnored(req) == NoExc

GitCheck(req) ==
  IF req.git = "nonzero"
  THEN Exc("EnvironmentError", <<"Git is not installed or not accessible">>, "__init__")
  ELSE IF req.git = "missing"
  THEN Exc("EnvironmentError", <<"Git is not installed">>, "__init__")
  ELSE NoExc

\* _validate_inputs: the first check that fails raises; the 'git --version'
\* probe is run only when every other check has passed.
_validate_inputs(name, environments, req) ==
  LET early == << NameCheck(name), PathCheck(req), EnvCheck(environments) >>
      failed == {k \in 1..3 : early[k] # NoExc}
  IN IF failed # {}
     THEN [exc |-> early[CHOOSE k \in failed : \A m \in failed : k <= m],
           probed |-> FALSE]
     ELSE [exc |-> GitCheck(req), probed |-> TRUE]

\* _get_template_instance: the class for the kind, or "none".
_get_template_instanceAsFallback(template) ==
  IF template \in DOMAIN template_map THEN template_map[template] ELSE "BaseTemplate"

_get_template_instance(template) ==
  IF template \in DOMAIN template_map THEN template_map[template] ELSE "none"

\* __init__ as a whole: the object, the exception that leaves, and the git
\* subprocesses run.
Construct(req) ==
  LET name == _sanitize_project_name(req.name)
      environments == IF req.environments = <<>> THEN DefaultEnvironments
                      ELSE req.environments
      class == _get_template_instance(req.template)
      checked == _validate_inputs(name, environments, req)
  IN IF class = "none"
     THEN [self |-> NoObject,
           exc |-> Exc("ValidationError", <<"Unknown template type: ", req.template>>,
                       "__init__"),
           log |-> <<>>]
     ELSE [self |-> IF checked.exc = NoExc
                    THEN [project_name |-> name, environments |-> environments,
                          template |-> req.template, template_class |-> class]
                    ELSE NoObject,
           exc |-> checked.exc,
           log |-> IF checked.probed
                   THEN << [cmd |-> Cmd("--version", NoArg, NoArg),
                            ok |-> req.git = "ok"] >>
                   ELSE <<>>]

(***************************************************************************)
(* The file system under project_path.                                     *)
(***************************************************************************)
RootExists == <<>> \in dirs

Prefixes(path) == {SubSeq(path, 1, k) : k \in 0..Len(path)}

\* os.makedirs(path, exist_ok=True)
makedirs(d, path) == d \cup Prefixes(path)

\* The exist_ok argument of the two os.makedirs calls.
exist_okAsDefault == FALSE

exist_ok == TRUE

\* os.makedirs raises FileExistsError for an existing path unless exist_ok.
FileExistsError(d, path) == ~exist_ok /\ path \in d

Parent(path) == SubSeq(path, 1, Len(path) - 1)

\* Path(...).touch(): creates the file when absent, leaves an existing one.
touchAsSkipped(f, path) == f

touch(f, path) ==
  IF path \in DOMAIN f THEN f ELSE (path :> [content |-> "", mode |-> "0644"]) @@ f

\* open(path, 'w') and write(content)
write(f, path, content) ==
  (path :> [content |-> content,
            mode |-> IF path \in DOMAIN f THEN f[path].mode ELSE "0644"]) @@ f

chmod(f, path, mode) == [f EXCEPT ![path].mode = mode]

\* file_path.endswith('.sh')
ShellScripts ==
  { <<"scripts", "switch_env.sh">>, <<"scripts", "deploy.sh">>,
    <<"scripts", "run_tests.sh">> }

endswith_shAsAlways(path) == TRUE

endswith_sh(path) == path \in ShellScripts

(***************************************************************************)
(* The tree that create_directory_structure builds from a directory list,  *)
(* computed outside the run.                                               *)
(***************************************************************************)
EmptyTree == [dirs |-> {}, files |-> EmptyFun]

RECURSIVE Materialize(_, _)
Materialize(list, tree) ==
  IF list = <<>> THEN tree
  ELSE LET dir_path == Head(list)
       IN Materialize(Tail(list),
                      [dirs |-> makedirs(tree.dirs, dir_path),
                       files |-> IF dir_path # <<>>
                                 THEN touch(tree.files, Append(dir_path, ".gitkeep"))
                                 ELSE tree.files])

\* The list without the later occurrences of a repeated path.
RECURSIVE Dedup(_)
Dedup(list) ==
  IF list = <<>> THEN <<>>
  ELSE LET front == Dedup(SubSeq(list, 1, Len(list) - 1))
           last == list[Len(list)]
       IN IF last \in Range(front) THEN front ELSE Append(front, last)

\* What a successful step of setup_git leaves in the working tree.
GitDirs(c, d) ==
  IF c.op = "init" THEN d \cup { <<".git">>, <<".git", "hooks">> } ELSE d

GitFiles(c, f) ==
  CASE c.op = "init" -> write(f, <<".git", "config">>, "config")
    [] c.op = "config" -> write(f, <<".git", "config">>, "config")
    [] c.op = "_setup_branch_protection" ->
         write(f, <<".git", "config">>, "config+protection")
    [] c.op = "_setup_git_hooks" ->
         chmod(write(chmod(write(f, <<".git", "hooks", "pre-commit">>, "pre-commit"),
                           <<".git", "hooks", "pre-commit">>, "0755"),
                     <<".git", "hooks", "prepare-commit-msg">>, "prepare-commit-msg"),
               <<".git", "hooks", "prepare-commit-msg">>, "0755")
    [] OTHER -> f

(***************************************************************************)
(* The run.                                                                *)
(***************************************************************************)
\* The tree under project_path before the run.
InitialDirs == IF input.target_exists THEN OldDirs ELSE {}

InitialFiles == IF input.target_exists THEN OldFiles ELSE EmptyFun

Start(requests) ==
  /\ input \in requests
  /\ self = NoObject
  /\ pc = IF input.argv = "api" THEN "construct" ELSE "main"
  /\ i = 0
  /\ dirs = InitialDirs
  /\ files = InitialFiles
  /\ todo = <<>>
  /\ repo = NoRepo
  /\ gitLog = <<>>
  /\ exc = NoExc
  /\ orig = NoExc
  /\ exit = -1
  /\ other = FALSE

Init == Start(Requests(SampleNames))

\* An exception raised inside the try block of setup_project.
Caught(e) ==
  /\ pc' = "handler"
  /\ orig' = e

\* main, lines 1439-1461: no arguments prints the usage and exits 1; argparse
\* exits 0 after --version or --help and 2 on a usage error such as a
\* template outside choices.
ParseArgs ==
  /\ pc = "main"
  /\ IF input.argv = "none" THEN pc' = "exited" /\ exit' = 1
     ELSE IF input.argv \in {"version", "help"} THEN pc' = "exited" /\ exit' = 0
     ELSE IF input.template \notin TemplateKinds THEN pc' = "exited" /\ exit' = 2
     ELSE pc' = "construct" /\ exit' = exit
  /\ UNCHANGED <<other, input, self, i, dirs, files, todo, repo, gitLog, exc, orig>>

\* ProjectSetup(...): __init__ touches nothing on disk.
NewAsEagerMkdir ==
  /\ pc = "construct"
  /\ LET r == Construct(input)
     IN /\ self' = r.self
        /\ gitLog' = r.log
        /\ exc' = r.exc
        /\ pc' = IF r.exc = NoExc THEN "setup_project" ELSE "raised"
  /\ dirs' = makedirs(dirs, <<>>)
  /\ UNCHANGED <<other, input, i, files, todo, repo, orig, exit>>

New ==
  /\ pc = "construct"
  /\ LET r == Construct(input)
     IN /\ self' = r.self
        /\ gitLog' = r.log
        /\ exc' = r.exc
        /\ pc' = IF r.exc = NoExc THEN "setup_project" ELSE "raised"
  /\ UNCHANGED <<other, input, i, dirs, files, todo, repo, orig, exit>>

\* setup_project up to the loop of create_directory_structure: two headers
\* are printed and the directory list is built.
EnterSetup ==
  /\ pc = "setup_project"
  /\ \E outcome \in {"ok", "print"} :
       IF outcome = "ok"
       THEN /\ pc' = "create_directory_structure"
            /\ todo' = get_directories(self.template_class, self.environments)
            /\ i' = 1
            /\ orig' = orig
       ELSE /\ Caught(Exc("OSError", <<"print">>, "setup_project"))
            /\ UNCHANGED <<todo, i>>
  /\ UNCHANGED <<other, input, self, dirs, files, repo, gitLog, exc, exit>>

\* One iteration of the loop of create_directory_structure.
CreateDirectory ==
  /\ pc = "create_directory_structure"
  /\ i <= Len(todo)
  /\ \E outcome \in {"ok", "makedirs", "touch"} :
       LET dir_path == todo[i]
           made == makedirs(dirs, dir_path)
       IN CASE FileExistsError(dirs, dir_path) ->
                 /\ outcome = "makedirs"
                 /\ Caught(Exc("FileExistsError", <<"File exists">>, "setup_project"))
                 /\ UNCHANGED <<dirs, files, i>>
            [] outcome = "makedirs" ->
                 /\ Caught(Exc("OSError", <<"makedirs">>, "setup_project"))
                 /\ UNCHANGED <<dirs, files, i>>
            [] outcome = "touch" ->
                 /\ dir_path # <<>>
                 /\ dirs' = made
                 /\ Caught(Exc("OSError", <<"touch">>, "setup_project"))
                 /\ UNCHANGED <<files, i>>
            [] outcome = "ok" ->
                 /\ dirs' = made
                 /\ files' = IF dir_path # <<>>
                             THEN touch(files, Append(dir_path, ".gitkeep"))
                             ELSE files
                 /\ i' = i + 1
                 /\ UNCHANGED <<pc, orig>>
  /\ UNCHANGED <<other, input, self, todo, repo, gitLog, exc, exit>>

\* create_files up to its loop: the header, and get_files().
EnterCreateFiles ==
  /\ pc = "create_directory_structure"
  /\ i > Len(todo)
  /\ LET got == get_files(self.template_class)
     IN IF got.ok
        THEN /\ pc' = "create_files"
             /\ todo' = got.files
             /\ i' = 1
             /\ orig' = orig
        ELSE /\ Caught(Exc("AttributeError", <<"object has no attribute ", got.error>>,
                           "setup_project"))
             /\ UNCHANGED <<todo, i>>
  /\ UNCHANGED <<other, input, self, dirs, files, repo, gitLog, exc, exit>>

\* One iteration of the loop of create_files.
CreateFile ==
  /\ pc = "create_files"
  /\ i <= Len(todo)
  /\ \E outcome \in {"ok", "open", "chmod"} :
       LET file_path == todo[i].path
           made == makedirs(dirs, Parent(file_path))
           written == write(files, file_path, todo[i].gen)
       IN CASE FileExistsError(dirs, Parent(file_path)) ->
                 /\ outcome = "open"
                 /\ Caught(Exc("FileExistsError", <<"File exists">>, "setup_project"))
                 /\ UNCHANGED <<dirs, files, i>>
            [] outcome = "open" ->
                 /\ dirs' = made
                 /\ Caught(Exc("OSError", <<"open">>, "setup_project"))
                 /\ UNCHANGED <<files, i>>
            [] outcome = "chmod" ->
                 /\ endswith_sh(file_path)
                 /\ dirs' = made
                 /\ files' = written
                 /\ Caught(Exc("OSError", <<"chmod">>, "setup_project"))
                 /\ UNCHANGED i
            [] outcome = "ok" ->
                 /\ dirs' = made
                 /\ files' = IF endswith_sh(file_path)
                             THEN chmod(written, file_path, "0755")
                             ELSE written
                 /\ i' = i + 1
                 /\ UNCHANGED <<pc, orig>>
  /\ UNCHANGED <<other, input, self, todo, repo, gitLog, exc, exit>>

\* setup_git up to its first statement.
EnterSetupGit ==
  /\ pc = "create_files"
  /\ i > Len(todo)
  /\ pc' = "setup_git"
  /\ todo' = SetupGitSteps(self.environments)
  /\ i' = 1
  /\ UNCHANGED <<other, input, self, dirs, files, repo, gitLog, exc, orig, exit>>

\* The except clause of _run_git_command: the failure is logged and GitError
\* is raised with the captured stderr; nothing is run again.
GitFailureAsSwallowed ==
  /\ i' = i + 1
  /\ UNCHANGED <<pc, orig>>

GitFailure ==
  /\ Caught(Exc("GitError", <<"Git command failed: ", "stderr">>, "setup_project"))
  /\ UNCHANGED i

\* One statement of setup_git: _run_git_command runs the command once, the
\* two helpers write into .git.  A command fails when git rejects it in the
\* current repository state, when there is no git to run, and possibly for
\* reasons outside the repository state (no committer identity, a
\* read-only disk).
SetupGitStep ==
  /\ pc = "setup_git"
  /\ i <= Len(todo)
  /\ \E outcome \in {"ok", "fail"} :
       LET c == todo[i]
           possible == /\ GitAccepts(c, repo)
                       /\ IsGitCommand(c) => (input.git = "ok" /\ ShellRuns(c))
           ok == outcome = "ok" /\ possible
       IN /\ outcome = "fail" => possible
          /\ gitLog' = IF IsGitCommand(c)
                       THEN Append(gitLog, [cmd |-> c, ok |-> ok])
                       ELSE gitLog
          /\ IF ok
             THEN /\ repo' = GitApply(c, repo, input.default_branch)
                  /\ dirs' = GitDirs(c, dirs)
                  /\ files' = GitFiles(c, files)
                  /\ i' = i + 1
                  /\ UNCHANGED <<pc, orig>>
             ELSE /\ IF IsGitCommand(c)
                     THEN GitFailure
                     ELSE /\ Caught(Exc("OSError", <<"open">>, "setup_project"))
                          /\ UNCHANGED i
                  /\ UNCHANGED <<repo, dirs, files>>
  /\ UNCHANGED <<other, input, self, todo, exc, exit>>

\* The end of the try block: the completion header and _print_next_steps.
CompleteAsOutsideTry ==
  /\ pc = "setup_git"
  /\ i > Len(todo)
  /\ \E outcome \in {"ok", "print"} :
       IF outcome = "ok"
       THEN pc' = "returned" /\ exc' = exc
       ELSE pc' = "raised" /\ exc' = Exc("OSError", <<"print">>, "setup_project")
  /\ UNCHANGED <<other, input, self, i, dirs, files, todo, repo, gitLog, orig, exit>>

Complete ==
  /\ pc = "setup_git"
  /\ i > Len(todo)
  /\ \E outcome \in {"ok", "print"} :
       IF outcome = "ok"
       THEN pc' = "returned" /\ orig' = orig
       ELSE Caught(Exc("OSError", <<"print">>, "setup_project"))
  /\ UNCHANGED <<other, input, self, i, dirs, files, todo, repo, gitLog, exc, exit>>

\* if os.path.exists(self.project_path): the handler asks only whether the
\* path exists, not who created it.
ShouldRemoveAsOwnedOnly == RootExists /\ ~other

ShouldRemove == RootExists

\* shutil.rmtree raising inside the except clause: nothing catches it there,
\* so it leaves setup_project before the raise of ProjectError is reached.
RmtreeFailureAsSwallowed ==
  exc' = Exc("ProjectError", <<"Project setup failed: ">> \o orig.msg, "setup_project")

RmtreeFailure ==
  exc' = Exc("OSError", <<"rmtree">>, "setup_project")

\* The except clause of setup_project: report, remove the tree when it
\* exists, raise ProjectError around str(e).  Reporting and removal can
\* raise themselves; that exception then leaves instead.
RollbackAsKeepTree ==
  /\ pc = "handler"
  /\ exc' = Exc("ProjectError", <<"Project setup failed: ">> \o orig.msg,
                "setup_project")
  /\ pc' = "raised"
  /\ UNCHANGED <<other, input, self, i, dirs, files, todo, repo, gitLog, orig, exit>>

Rollback ==
  /\ pc = "handler"
  /\ \E outcome \in {"ok", "print", "rmtree"} :
       CASE outcome = "print" ->
              /\ exc' = Exc("OSError", <<"print">>, "setup_project")
              /\ UNCHANGED <<dirs, files, repo>>
         [] outcome = "rmtree" ->
              /\ RootExists
              /\ RmtreeFailure
              /\ UNCHANGED <<dirs, files, repo>>
         [] outcome = "ok" ->
              /\ IF ShouldRemove
                 THEN dirs' = {} /\ files' = EmptyFun /\ repo' = NoRepo
                 ELSE UNCHANGED <<dirs, files, repo>>
              /\ exc' = Exc("ProjectError", <<"Project setup failed: ">> \o orig.msg,
                            "setup_project")
  /\ pc' = "raised"
  /\ UNCHANGED <<other, input, self, i, todo, gitLog, orig, exit>>

InSetupProject ==
  pc \in {"setup_project", "create_directory_structure", "create_files",
          "setup_git", "handler"}

\* SIGINT while setup_project runs: KeyboardInterrupt is not an Exception, so
\* the except clause does not catch it.
InterruptAsRollback ==
  /\ InSetupProject
  /\ exc' = Exc("KeyboardInterrupt", <<>>, "setup_project")
  /\ pc' = "raised"
  /\ dirs' = {}
  /\ files' = EmptyFun
  /\ repo' = NoRepo
  /\ UNCHANGED <<other, input, self, i, todo, gitLog, orig, exit>>

Interrupt ==
  /\ InSetupProject
  /\ exc' = Exc("KeyboardInterrupt", <<>>, "setup_project")
  /\ pc' = "raised"
  /\ UNCHANGED <<other, input, self, i, dirs, files, todo, repo, gitLog, orig, exit>>

\* The except clauses of main: each reports and calls sys.exit(1).
ExitStatusAsReraise(e) ==
  IF e.kind \in {"ValidationError", "GitError", "ProjectError"} THEN 1 ELSE 0

ExitStatus(e) ==
  IF e.kind \in {"ValidationError", "GitError", "ProjectError"} THEN 1
  ELSE IF e.kind = "KeyboardInterrupt" THEN 1
  ELSE 1

\* main after the try block: falling off the end is exit status 0.
MainExit ==
  /\ input.argv = "args"
  /\ pc \in {"returned", "raised"}
  /\ exit' = IF pc = "returned" THEN 0 ELSE ExitStatus(exc)
  /\ pc' = "exited"
  /\ UNCHANGED <<other, input, self, i, dirs, files, todo, repo, gitLog, exc, orig>>

Next ==
  \/ ParseArgs
  \/ New
  \/ EnterSetup
  \/ CreateDirectory
  \/ EnterCreateFiles
  \/ CreateFile
  \/ EnterSetupGit
  \/ SetupGitStep
  \/ Complete
  \/ Rollback
  \/ Interrupt
  \/ MainExit

Spec == Init /\ [][Next]_vars

(***************************************************************************)
(* Two ProjectSetup objects for the same name and base path.  Both pass    *)
(* validation while the target is absent; the other one runs               *)
(* setup_project to completion before this one starts its own.             *)
(***************************************************************************)
\* create_files over a file list, computed outside the run.
RECURSIVE WriteAll(_, _)
WriteAll(list, tree) ==
  IF list = <<>> THEN tree
  ELSE LET file_path == Head(list).path
           written == write(tree.files, file_path, Head(list).gen)
       IN WriteAll(Tail(list),
                   [dirs |-> makedirs(tree.dirs, Parent(file_path)),
                    files |-> IF endswith_sh(file_path)
                              THEN chmod(written, file_path, "0755")
                              ELSE written])

\* setup_git over its statements, every one succeeding.
RECURSIVE RunGit(_, _, _)
RunGit(steps, st, default_branch) ==
  IF steps = <<>> THEN st
  ELSE RunGit(Tail(steps),
              [dirs |-> GitDirs(Head(steps), st.dirs),
               files |-> GitFiles(Head(steps), st.files),
               repo |-> GitApply(Head(steps), st.repo, default_branch)],
              default_branch)

\* The other object was constructed without an environment list; what its
\* create_directory_structure, create_files and setup_git leave on disk.
OtherDirectories ==
  Materialize(get_directories("BaseTemplate", DefaultEnvironments), EmptyTree)

OtherFiles == WriteAll(get_files("BaseTemplate").files, OtherDirectories)

OtherTree ==
  RunGit(SetupGitSteps(DefaultEnvironments),
         [dirs |-> OtherFiles.dirs, files |-> OtherFiles.files, repo |-> NoRepo],
         <<"master">>)

\* The other object's setup_project, run between this object's construction
\* and its setup_project.
OtherRun ==
  /\ pc = "setup_project"
  /\ ~other
  /\ ~RootExists
  /\ other' = TRUE
  /\ dirs' = OtherTree.dirs
  /\ files' = OtherTree.files
  /\ repo' = OtherTree.repo
  /\ UNCHANGED <<input, self, pc, i, todo, gitLog, exc, orig, exit>>

TwoRunRequests ==
  { Request(argv, <<"M","y"," ","A","p","p">>, env, template, TRUE, target, "ok",
            <<"master">>) :
      argv \in {"args", "api"}, env \in { <<>>, <<"local", "staging">> },
      template \in TemplateKinds, target \in BOOLEAN }

InitTwoRuns == Start(TwoRunRequests)

NextTwoRuns ==
  \/ Next
  \/ OtherRun

SpecTwoRuns == InitTwoRuns /\ [][NextTwoRuns]_vars

(***************************************************************************)
(* Runs of the basic template over environment lists that pass validation  *)
(* and name the refs the bootstrap itself uses.                            *)
(***************************************************************************)
BranchNames == {"staging", "main", "develop", "feature", "release", "hotfix", "qa\n"}

BranchRequests ==
  { Request(argv, <<"M","y"," ","A","p","p">>, env, "basic", TRUE, FALSE, "ok",
            <<"master">>) :
      argv \in {"args", "api"}, env \in SeqsUpTo(BranchNames, MaxEnvs) }

InitBranches == Start(BranchRequests)

SpecBranches == InitBranches /\ [][Next]_vars

(***************************************************************************)
(* Construction alone, over every raw project name up to MaxNameLen, with  *)
(* the other inputs valid.                                                 *)
(***************************************************************************)
SanitizeRequests ==
  { Request("api", name, <<>>, "basic", TRUE, FALSE, "ok", <<"master">>) :
      name \in BoundedNames }

InitSanitize == Start(SanitizeRequests)

NextSanitize == New

SpecSanitize == InitSanitize /\ [][NextSanitize]_vars

(***************************************************************************)
(* Properties.                                                             *)
(***************************************************************************)
Terminated == pc \in {"returned", "raised", "exited"}

\* The tag is the last statement of setup_git.
BootstrapDone == repo.init /\ <<"v0.1.0">> \in DOMAIN repo.tags

\* argparse ended the process before any ProjectSetup was constructed.
ArgparseExit ==
  \/ input.argv \in {"none", "version", "help"}
  \/ input.argv = "args" /\ input.template \notin TemplateKinds

\* C1, as stated: whenever a step of setup_project has raised an Exception
\* and setup_project has terminated, the project root is gone and what left
\* is a ProjectError whose message contains the original message.
C1_AlwaysRolledBack ==
  (Terminated /\ orig # NoExc /\ exc.kind # "KeyboardInterrupt") =>
    /\ exc.kind = "ProjectError"
    /\ ~RootExists
    /\ Contains(exc.msg, orig.msg)

\* C1, amended: when setup_project has terminated with ProjectError, a step
\* had raised, the project root does not exist and the message contains the
\* original message; when a step had raised and something else left, it is
\* the failure of the handler's own report or of the recursive deletion, or
\* an interrupt.
C1_RolledBackUnlessHandlerFails ==
  /\ (Terminated /\ exc.kind = "ProjectError") =>
       /\ orig # NoExc
       /\ ~RootExists
       /\ files = EmptyFun
       /\ Contains(exc.msg, orig.msg)
  /\ (Terminated /\ orig # NoExc /\ exc.kind # "ProjectError") =>
       \/ exc.kind = "KeyboardInterrupt"
       \/ exc.kind = "OSError" /\ exc.msg \in { <<"print">>, <<"rmtree">> }

C1_Witness ==
  /\ pc = "raised"
  /\ orig.kind = "GitError"
  /\ exc.kind = "ProjectError"
  /\ repo = NoRepo
  /\ ~RootExists

\* C2: when the target path exists before the run, construction raises
\* ValidationError and the tree under the target is what it was: nothing
\* created, written, modified or deleted.
C2_ExistingTargetRejected ==
  input.target_exists =>
    /\ dirs = OldDirs
    /\ files = OldFiles
    /\ repo = NoRepo
    /\ (pc \notin {"main", "construct"} /\ ~ArgparseExit) =>
         /\ exc.kind = "ValidationError"
         /\ exc.from = "__init__"
         /\ self = NoObject

C2_Witness ==
  /\ pc = "raised"
  /\ input.target_exists
  /\ exc = Exc("ValidationError",
               <<"Project directory already exists: ", "project_path">>, "__init__")
  /\ files = OldFiles

\* C3, as stated: for the template of every constructed ProjectSetup,
\* get_directories() and get_files() return, the directory list contains
\* every basic directory and the file map has every basic path as a key.
C3_TemplatesExtendBasic ==
  self # NoObject =>
    LET class == self.template_class
        got == get_files(class)
    IN /\ Range(BaseDirectories(self.environments))
            \subseteq Range(get_directories(class, self.environments))
       /\ got.ok
       /\ Paths(BaseFiles) \subseteq Paths(got.files)

\* C4: once the bootstrap has created the tag, the local branches are main,
\* develop and one per environment other than local and dev, and no
\* demonstrative branch is left.
C4_BranchSet ==
  BootstrapDone =>
    /\ DOMAIN repo.branches =
         { <<"main">>, <<"develop">> }
           \cup { <<e>> : e \in Range(self.environments) \ {"local", "dev"} }
    /\ DOMAIN repo.branches \cap
         { <<"feature", "example">>, <<"release", "0.1.0">>, <<"hotfix", "example">> }
         = {}
    /\ self.environments = <<"local", "dev", "staging", "prod">> =>
         DOMAIN repo.branches = { <<"main">>, <<"develop">>, <<"staging">>, <<"prod">> }

C4_Witness ==
  /\ pc = "setup_git"
  /\ i > Len(todo)
  /\ BootstrapDone
  /\ self.environments = <<"local", "dev", "staging", "prod">>
  /\ DOMAIN repo.branches = { <<"main">>, <<"develop">>, <<"staging">>, <<"prod">> }

\* C5: when ValidationError has been raised, the tree is what it was before
\* the ProjectSetup was constructed, and no git command other than the
\* 'git --version' probe has been run.
C5_ValidationBeforeMutation ==
  exc.kind = "ValidationError" =>
    /\ dirs = InitialDirs
    /\ files = InitialFiles
    /\ repo = NoRepo
    /\ \A k \in 1..Len(gitLog) : gitLog[k].cmd.op = "--version"

C5_Witness ==
  /\ pc = "raised"
  /\ exc.kind = "ValidationError"
  /\ exc.msg[1] = "Invalid environment name: "
  /\ input.base_exists
  /\ dirs = {}

\* C6: after construction, either the object's project_name matches
\* ^[a-z][a-z0-9-_]*$ character for character, or there is no object and
\* ValidationError was raised; 'B a' becomes 'b-a'.
C6_SanitizedNameMatches ==
  pc # "construct" =>
    /\ self # NoObject => IdentBody(self.project_name)
    /\ self = NoObject => exc.kind = "ValidationError"
    /\ input.name = <<"B", " ", "a">> => self.project_name = <<"b", "-", "a">>

C6_Witness ==
  /\ pc = "setup_project"
  /\ input.name = <<"B", " ", "a">>
  /\ self.project_name = <<"b", "-", "a">>

\* C7: when the 'git --version' probe cannot be executed or exits non-zero,
\* no ProjectSetup object comes to exist, setup_project never starts, the
\* failure is raised by the constructor, and the tree is untouched.
C7_NoGitNoDirectory ==
  input.git # "ok" =>
    /\ self = NoObject
    /\ dirs = InitialDirs
    /\ files = InitialFiles
    /\ pc \in {"main", "construct", "raised", "exited"}
    /\ exc # NoExc => exc.from = "__init__"

C7_Witness ==
  /\ pc = "raised"
  /\ input.git = "missing"
  /\ exc = Exc("EnvironmentError", <<"Git is not installed">>, "__init__")
  /\ ~RootExists

\* C8: in the log of git subprocesses only the last one can have failed, so
\* nothing is run after a failure and the failed command is run once; and
\* when a command of the bootstrap has failed, a GitError carrying the
\* captured stderr was raised.
C8_FirstGitFailureStops ==
  /\ \A k \in 1..(Len(gitLog) - 1) : gitLog[k].ok
  /\ (gitLog # <<>> /\ ~gitLog[Len(gitLog)].ok
        /\ gitLog[Len(gitLog)].cmd.op # "--version") =>
       /\ orig.kind = "GitError"
       /\ Contains(orig.msg, <<"stderr">>)
       /\ pc \in {"handler", "raised", "exited"}

C8_Witness ==
  /\ pc = "raised"
  /\ Len(gitLog) > 8
  /\ ~gitLog[Len(gitLog)].ok
  /\ gitLog[Len(gitLog)].cmd.op = "commit"
  /\ orig.kind = "GitError"

\* C9: once the bootstrap has created the tag, the repository has exactly
\* one commit, every branch and the tag v0.1.0 point at it, main, develop
\* and the environment branches exist, and main is checked out.
C9_SingleCommit ==
  BootstrapDone =>
    /\ repo.commits = 1
    /\ \A b \in DOMAIN repo.branches : repo.branches[b] = 1
    /\ repo.tags[<<"v0.1.0">>] = 1
    /\ { <<"main">>, <<"develop">> } \subseteq DOMAIN repo.branches
    /\ \A e \in Range(self.environments) \ {"local", "dev"} :
         <<e>> \in DOMAIN repo.branches
    /\ repo.head = <<"main">>

C9_Witness ==
  /\ pc = "returned"
  /\ input.default_branch = <<"master">>
  /\ repo.commits = 1
  /\ repo.head = <<"main">>
  /\ <<"staging">> \in DOMAIN repo.branches
  /\ repo.branches[<<"staging">>] = 1
  /\ repo.tags[<<"v0.1.0">>] = 1

\* C10, as stated: the exit status is 0 exactly when setup completed, and 1
\* in every other case.
C10_ZeroOrOne ==
  pc = "exited" =>
    IF exc = NoExc /\ BootstrapDone THEN exit = 0 ELSE exit = 1

\* C10, amended: the exit status is 0 when setup completed and when
\* argparse served --version or --help, 2 when argparse rejected the
\* command line (a template outside the four choices), and 1 for no
\* arguments and for every exception out of construction or setup_project.
C10_ExitStatus ==
  pc = "exited" =>
    /\ exit = (CASE input.argv = "none" -> 1
                 [] input.argv \in {"version", "help"} -> 0
                 [] input.argv = "args" /\ input.template \notin TemplateKinds -> 2
                 [] OTHER -> IF exc = NoExc THEN 0 ELSE 1)
    /\ (exit = 0 /\ input.argv = "args") => BootstrapDone /\ RootExists
    /\ exc.kind \in {"ValidationError", "GitError", "ProjectError", "EnvironmentError",
                     "OSError", "KeyboardInterrupt"} => exit = 1

C10_Witness ==
  /\ pc = "exited"
  /\ exit = 2
  /\ input.argv = "args"
  /\ input.template = "bogus"

\* create_directory_structure has returned and nothing has been rolled back.
DirectoriesDone ==
  \/ pc = "create_directory_structure" /\ i > Len(todo)
  \/ pc \in {"create_files", "setup_git", "returned"}

\* create_files has returned and nothing has been rolled back.
FilesDone ==
  \/ pc = "create_files" /\ i > Len(todo)
  \/ pc \in {"setup_git", "returned"}

\* C11: after create_directory_structure, every non-root directory of the
\* template's list exists and holds a .gitkeep, and the project root holds
\* none.
C11_GitkeepInEveryListedDirectory ==
  DirectoriesDone =>
    /\ \A d \in Range(get_directories(self.template_class, self.environments)) :
         /\ d \in dirs
         /\ d # <<>> => Append(d, ".gitkeep") \in DOMAIN files
    /\ <<".gitkeep">> \notin DOMAIN files

C11_Witness ==
  /\ pc = "create_directory_structure"
  /\ i > Len(todo)
  /\ self.template_class = "WebAppTemplate"
  /\ <<"config", "staging", ".gitkeep">> \in DOMAIN files
  /\ <<"public", "fonts", ".gitkeep">> \in DOMAIN files
  /\ <<".github">> \in dirs
  /\ <<".github", ".gitkeep">> \notin DOMAIN files

\* C12: after create_files, every path of the template's file map holds the
\* mapped content, its mode is 0755 exactly for the three scripts, and no
\* other file of the tree outside .git has been made executable.
C12_FilesWrittenScriptsExecutable ==
  FilesDone =>
    LET got == get_files(self.template_class)
        scripts == { <<"scripts", "switch_env.sh">>, <<"scripts", "deploy.sh">>,
                     <<"scripts", "run_tests.sh">> }
    IN /\ got.ok
       /\ \A k \in 1..Len(got.files) :
            LET e == got.files[k]
            IN /\ e.path \in DOMAIN files
               /\ files[e.path].content = e.gen
               /\ files[e.path].mode = "0755" <=> e.path \in scripts
       /\ \A p \in DOMAIN files :
            (files[p].mode = "0755" /\ p[1] # ".git") => p \in scripts

C12_Witness ==
  /\ pc = "create_files"
  /\ i > Len(todo)
  /\ <<"scripts", "deploy.sh">> \in DOMAIN files
  /\ files[<<"scripts", "deploy.sh">>] =
       [content |-> "_get_deploy_script_content", mode |-> "0755"]
  /\ <<"README.md">> \in DOMAIN files
  /\ files[<<"README.md">>] = [content |-> "_get_readme_content", mode |-> "0644"]

\* C13: a directory list with repeated paths, or with a path that already
\* exists, never raises FileExistsError, and the tree after
\* create_directory_structure is the tree of the list without its
\* repetitions.
C13_DirectoryCreationIdempotent ==
  /\ orig.kind # "FileExistsError"
  /\ (pc = "create_directory_structure" /\ i > Len(todo)) =>
       LET tree == Materialize(Dedup(todo), EmptyTree)
       IN dirs = tree.dirs /\ files = tree.files

C13_Witness ==
  /\ pc = "create_directory_structure"
  /\ i > Len(todo)
  /\ self.template_class = "LibraryTemplate"
  /\ self.environments = <<"staging", "staging">>
  /\ Len(Dedup(todo)) = Len(todo) - 4
  /\ <<"docs", "api", ".gitkeep">> \in DOMAIN files

\* C14: a template kind outside the four makes construction raise
\* ValidationError with the kind in its message and create no object,
\* whatever the other inputs are.
C14_UnknownTemplateRejected ==
  (input.template \notin TemplateKinds /\ pc \notin {"main", "construct"}
     /\ ~ArgparseExit) =>
    /\ self = NoObject
    /\ exc.kind = "ValidationError"
    /\ exc.from = "__init__"
    /\ Contains(exc.msg, <<input.template>>)
    /\ gitLog = <<>>

C14_Witness ==
  /\ pc = "raised"
  /\ input.template = "bogus"
  /\ input.name = <<"1", "x">>
  /\ ~input.base_exists
  /\ exc = Exc("ValidationError", <<"Unknown template type: ", "bogus">>, "__init__")

\* C15: the step at which KeyboardInterrupt arrives during setup_project
\* leaves the tree and the repository as they were, and what leaves
\* setup_project is the KeyboardInterrupt itself, not a ProjectError; main
\* then exits without touching the tree.
C15_InterruptLeavesTree ==
  [][ /\ (exc.kind # "KeyboardInterrupt" /\ exc'.kind = "KeyboardInterrupt") =>
           /\ InSetupProject
           /\ pc' = "raised"
           /\ exc' = Exc("KeyboardInterrupt", <<>>, "setup_project")
           /\ dirs' = dirs /\ files' = files /\ repo' = repo
      /\ exc.kind = "KeyboardInterrupt" =>
           /\ exc' = exc
           /\ dirs' = dirs /\ files' = files /\ repo' = repo ]_vars

C15_Witness ==
  /\ pc = "exited"
  /\ exit = 1
  /\ exc = Exc("KeyboardInterrupt", <<>>, "setup_project")
  /\ orig = NoExc
  /\ RootExists
  /\ repo.init
  /\ <<"develop">> \in DOMAIN repo.branches
  /\ ~BootstrapDone

\* C17: a handler step that starts with the project root present and ends
\* setup_project with the root still present never ends it with
\* ProjectError: what leaves is the error of the failed deletion (or of the
\* failed report, or an interrupt), and a ProjectError leaves only from a
\* step that ends with the root absent.
C17_FailedDeletionSurfaces ==
  [][ (pc = "handler" /\ pc' = "raised" /\ RootExists) =>
        /\ RootExists' =>
             /\ exc'.kind # "ProjectError"
             /\ \/ exc' = Exc("OSError", <<"rmtree">>, "setup_project")
                \/ exc' = Exc("OSError", <<"print">>, "setup_project")
                \/ exc'.kind = "KeyboardInterrupt"
             /\ dirs' = dirs /\ files' = files
        /\ exc'.kind = "ProjectError" => ~RootExists' ]_vars

C17_Witness ==
  /\ pc = "raised"
  /\ exc = Exc("OSError", <<"rmtree">>, "setup_project")
  /\ orig.kind = "GitError"
  /\ RootExists
  /\ repo.init
  /\ <<"README.md">> \in DOMAIN files

\* A successful run of the command, as recorded in the log.
Ran(c) == [cmd |-> c, ok |-> TRUE]

\* C16: the stages happen in one order.  A template file is on disk only
\* when every listed directory is; the repository exists only when every
\* template file is; a successful commit precedes every branch creation;
\* the protection block and the hooks are on disk only after the three
\* demonstrative branches were deleted; the tag command is the last git
\* operation and directly follows the successful checkout of main.
C16_StagesInOrder ==
  LET listed == Range(get_directories(self.template_class, self.environments))
      got == get_files(self.template_class)
      mapped == { got.files[k].path : k \in 1..Len(got.files) }
      demos == { <<"feature", "example">>, <<"release", "0.1.0">>, <<"hotfix", "example">> }
  IN /\ (self # NoObject /\ got.ok /\ mapped \cap DOMAIN files # {}) =>
          listed \subseteq dirs
     /\ (repo.init \/ \E k \in 1..Len(gitLog) : gitLog[k].cmd.op = "init") =>
          /\ self # NoObject /\ got.ok
          /\ RootExists => mapped \subseteq DOMAIN files
          /\ pc \notin {"setup_project", "create_directory_structure", "create_files"}
     /\ \A k \in 1..Len(gitLog) :
          gitLog[k].cmd.op = "checkout-b" =>
            \E j \in 1..(k - 1) : gitLog[j] = Ran(Cmd("commit", NoArg, NoArg))
     /\ (\/ repo.protection
         \/ repo.hooks # {}
         \/ <<".git", "hooks", "pre-commit">> \in DOMAIN files) =>
          /\ \A d \in demos : \E j \in 1..Len(gitLog) :
               gitLog[j] = Ran(Cmd("branch-D", d, NoArg))
          /\ demos \cap DOMAIN repo.branches = {}
          /\ repo.hooks # {} => repo.protection
     /\ \A k \in 1..Len(gitLog) :
          gitLog[k].cmd.op = "tag-a" =>
            /\ k = Len(gitLog)
            /\ k > 1
            /\ gitLog[k - 1] = Ran(Cmd("checkout", <<"main">>, NoArg))
            /\ RootExists => repo.protection /\ repo.hooks # {}

C16_Witness ==
  /\ pc = "returned"
  /\ gitLog[Len(gitLog)] = Ran(Cmd("tag-a", <<"v0.1.0">>, NoArg))
  /\ gitLog[Len(gitLog) - 1] = Ran(Cmd("checkout", <<"main">>, NoArg))
  /\ repo.protection
  /\ <<".git", "hooks", "prepare-commit-msg">> \in DOMAIN files
  /\ <<"staging">> \in DOMAIN repo.branches
  /\ <<"README.md">> \in DOMAIN files

\* The tree the other run produced is on disk as that run left it.
OtherIntact ==
  /\ OtherTree.dirs \subseteq dirs
  /\ \A p \in DOMAIN OtherTree.files :
       p \in DOMAIN files /\ files[p] = OtherTree.files[p]
  /\ repo = OtherTree.repo

PrintFailed == Exc("OSError", <<"print">>, "setup_project")

Buildable(environments) ==
  LET b == EnvBranches(environments)
  IN /\ \A j, k \in 1..Len(b) : j # k => b[j] # b[k]
     /\ Range(b) \cap {"main", "develop", "feature", "release", "hotfix"} = {}
     /\ Range(b) \cap NewlineNames = {}

\* C20, as stated: for every list that passed validation, each
\* 'git checkout -b' the bootstrap reaches is accepted.
C20_ValidatedListsBuild ==
  (pc = "setup_git" /\ i <= Len(todo) /\ todo[i].op = "checkout-b") =>
    GitAccepts(todo[i], repo) /\ ShellRuns(todo[i])

\* C20, amended: validation checks the pattern of each name and nothing
\* else.  Every 'git checkout -b' the bootstrap reaches is accepted when the
\* list is Buildable; when it is not, the bootstrap never creates the tag
\* and setup_project never returns.
C20_BuildableListsBuild ==
  self # NoObject =>
    /\ InvalidEnvs(self.environments) = {}
    /\ (Buildable(self.environments) /\ pc = "setup_git" /\ i <= Len(todo)
          /\ todo[i].op = "checkout-b") =>
         GitAccepts(todo[i], repo) /\ ShellRuns(todo[i])
    /\ ~Buildable(self.environments) => (~BootstrapDone /\ pc # "returned")

C20_Witness ==
  /\ pc = "setup_git"
  /\ i <= Len(todo)
  /\ self.environments = <<"staging", "main">>
  /\ todo[i] = Cmd("checkout-b", <<"main">>, <<"develop">>)
  /\ <<"staging">> \in DOMAIN repo.branches
  /\ ~GitAccepts(todo[i], repo)

\* C21: from the initial commit onward the checked-out branch exists, and
\* every 'git branch -D' the bootstrap runs directly follows the successful
\* checkout of a different, existing branch, so the branch it names is not
\* the current one.
C21_CurrentBranchExists ==
  /\ (repo.init /\ repo.commits >= 1) => repo.head \in DOMAIN repo.branches
  /\ \A k \in 1..Len(gitLog) :
       gitLog[k].cmd.op = "branch-D" =>
         /\ k > 1
         /\ gitLog[k - 1].ok
         /\ gitLog[k - 1].cmd.op = "checkout"
         /\ gitLog[k - 1].cmd.a # gitLog[k].cmd.a
         /\ gitLog[k - 1].cmd.a \in { <<"main">>, <<"develop">> }
  /\ (pc = "setup_git" /\ i <= Len(todo) /\ todo[i].op = "branch-D") =>
       /\ repo.head # todo[i].a
       /\ repo.head \in DOMAIN repo.branches
       /\ todo[i].a \in DOMAIN repo.branches

C21_Witness ==
  /\ pc = "setup_git"
  /\ i <= Len(todo)
  /\ gitLog[Len(gitLog)] = Ran(Cmd("branch-D", <<"hotfix", "example">>, NoArg))
  /\ repo.head = <<"main">>
  /\ <<"main">> \in DOMAIN repo.branches
  /\ <<"hotfix", "example">> \notin DOMAIN repo.branches
  /\ repo.commits = 1

\* The kind in the README text: 'using the {self.template_type} template',
\* generated by the template object.
ReadmeKind(obj) == template_type(obj.template_class)

\* The kind in the commit message: 'Template: {self.template}', the
\* requested kind.
CommitKind(obj) == KindChars[obj.template]

\* C22: once the README is on disk and the initial commit is made, the kind
\* named in the README is the kind named in the commit message.
C22_ReadmeKindIsCommitKind ==
  (/\ self # NoObject
   /\ <<"README.md">> \in DOMAIN files
   /\ files[<<"README.md">>].content = "_get_readme_content"
   /\ repo.commits >= 1) =>
    ReadmeKind(self) = CommitKind(self)

====
